---- MODULE Spec2Model ----
(***************************************************************************)
(* Model of the futex-backed mutex of futer/src/lib.rs (FuterInternal,    *)
(* FuterGuardInternal) together with the kernel wait/wake primitive it    *)
(* calls through futex_ffi, exercised by client threads that follow the   *)
(* usage of the crate's tests (lock / try_lock, deref, deref_mut, unlock). *)
(***************************************************************************)
EXTENDS Integers, FiniteSets, Sequences, TLC

\* ------------------------------------------------------------------ bounds
NumThreads == 2
Iters == 2
CallCap == 1
NumSenders == 2
MaxSends == 2
WideCalls == 1

Threads == 1..NumThreads

\* One more thread than Threads, each making WideCalls calls (SpecWide).
WideThreads == 1..(NumThreads + 1)

\* Sender handles: handle 1 is the one channel() returns, the others are
\* created by Sender::clone.
Senders == 1..NumSenders

\* --------------------------------------------------------- program constants
UNLOCKED == 0
LOCKED == 1
CONTESTED == 2

\* Futer::new(0): the payload the container is built with.
InitVal == 0

\* Values a holder stores through its guard (`*lock = 42`); two distinct values
\* are enough to tell a stale read from a fresh one.
PayloadValues == {0, 1}

\* tmp[t] while thread t has not read the payload through a guard.
NoValue == -1

\* A u32 is represented by its 32-bit pattern read as a two's-complement
\* integer (TLC's integers are 32 bits wide): 0 .. 2^31-1 stand for
\* themselves, -2^31 .. -1 stand for 2^31 .. 2^32-1, so u32::MAX is -1.
I32Min == (-2147483647) - 1
I32Max == 2147483647
U32_MAX == -1

VARIABLES
    word,       \* FuterInternal.lock : Box<AtomicU32>
    val,        \* FuterInternal.val  : Box<T>
    pc,         \* position of each client thread; "try_err" is a thread
                \* holding the Err(WouldBlock) its try_lock() returned
    c,          \* local `c` of FuterInternal::lock's contended path
    tmp,        \* value a thread read through its guard (`*lock`)
    guards,     \* number of FuterGuardInternal values alive per thread
    todo,       \* lock()/try_lock() calls a thread still has to make
    tryHeld,    \* history: a guard was alive at the compare-exchange of the
                \* try_lock() whose result the thread is holding
    written,    \* history: value most recently stored through a guard (or by new)
    waitCalls,  \* FUTEX_WAIT_CALL_COUNTER (counted up to CallCap)
    wakeCalls,  \* FUTEX_WAKE_CALL_COUNTER (counted up to CallCap)
    op,         \* history: the call a thread is inside or whose result it
                \* holds: "lock", "try_lock", "drop", or "none"
    slow        \* history: the guard the thread holds was returned by the
                \* contended path of lock() (its first compare-exchange failed)

\* The channel of src/lib.rs (Inner, Sender, Receiver).
VARIABLES
    que,        \* Inner.shared : Mutex<VecDeque<T>>, the queue behind the mutex
    strong,     \* Arc::strong_count of the Arc<Inner<T>>
    spc,        \* position of each Sender handle (of the thread that owns it)
    rpc,        \* position of the thread that owns the Receiver
    nextVal,    \* the next payload a send() passes (payloads are numbered)
    sent,       \* history: payloads in the order push_back appended them
    received,   \* history: payloads recv() returned in Ok, in order
    lastRes     \* history: result of the latest recv(): "ok", "err" or "none"

chanVars == <<que, strong, spc, rpc, nextVal, sent, received, lastRes>>

futerVars == <<word, val, pc, c, tmp, guards, todo, tryHeld, written,
               waitCalls, wakeCalls, op, slow>>

vars == <<futerVars, chanVars>>

\* ------------------------------------------------------------ atomics (u32)
\* AtomicU32::compare_exchange(current, new): the stored value is replaced only
\* when it equals `current`; Ok(previous) or Err(observed).
compare_exchange(w, current, new) ==
    IF w = current THEN [ok |-> TRUE, v |-> w, word |-> new]
    ELSE [ok |-> FALSE, v |-> w, word |-> w]

\* AtomicU32::compare_exchange_weak: as compare_exchange, but it may fail
\* although the comparison succeeds (spurious failure).
compare_exchange_weak(w, current, new, spurious) ==
    IF w = current /\ ~spurious THEN [ok |-> TRUE, v |-> w, word |-> new]
    ELSE [ok |-> FALSE, v |-> w, word |-> w]

\* Unsigned order of two u32 bit patterns.
U32Less(a, b) ==
    IF (a < 0) = (b < 0) THEN a < b ELSE b < 0

\* AtomicU32::fetch_sub / fetch_add wrap around modulo 2^32 (n in 0 .. 2^31-1).
fetch_sub(w, n) ==
    IF w >= I32Min + n THEN w - n ELSE ((w + I32Max) + (I32Max - n)) + 2

fetch_add(w, n) ==
    IF w <= I32Max - n THEN w + n ELSE ((w + I32Min) + (I32Min + n))

RECURSIVE SumOver(_, _)
SumOver(f, S) ==
    IF S = {} THEN 0
    ELSE LET x == CHOOSE y \in S : TRUE IN f[x] + SumOver(f, S \ {x})

GuardsAlive == SumOver(guards, DOMAIN guards)
Blocked == {t \in DOMAIN pc : pc[t] = "blocked"}
U32Min(a, b) == IF U32Less(a, b) THEN a ELSE b

\* MockFutexCalls: COUNTER.fetch_add(1, SeqCst).  The counters are only ever
\* compared with 0, so the model stops counting at CallCap.
CountCall(n) == IF n < CallCap THEN n + 1 ELSE n

\* --------------------------------------------------------------------- Init
\* Futer::new(val): payload boxed, lock word UNLOCKED, no guard, counters 0;
\* the client threads T have `calls` lock()/try_lock() calls to make each.
FuterInit(T, calls) ==
    /\ word = UNLOCKED
    /\ val = InitVal
    /\ written = val
    /\ pc = [t \in T |-> "idle"]
    /\ c = [t \in T |-> 0]
    /\ tmp = [t \in T |-> NoValue]
    /\ guards = [t \in T |-> 0]
    /\ todo = [t \in T |-> calls]
    /\ tryHeld = [t \in T |-> FALSE]
    /\ waitCalls = 0
    /\ wakeCalls = 0
    /\ op = [t \in T |-> "none"]
    /\ slow = [t \in T |-> FALSE]

\* channel(): an empty queue, one Sender and one Receiver sharing the Arc
\* (the local `inner` is dropped on return, so the count is 2).
ChanInit ==
    /\ que = <<>>
    /\ strong = 2
    /\ spc = [s \in Senders |-> IF s = 1 THEN "live" ELSE "none"]
    /\ rpc = "idle"
    /\ nextVal = 1
    /\ sent = <<>>
    /\ received = <<>>
    /\ lastRes = "none"

Init == FuterInit(Threads, Iters) /\ ChanInit

\* ------------------------------------------------------------- lock(), fast
LockFastCas_swapped(w) == compare_exchange(w, LOCKED, UNLOCKED)

\* self.lock.compare_exchange(UNLOCKED, LOCKED, Acquire, Acquire)
LockFastCas(w) == compare_exchange(w, UNLOCKED, LOCKED)

\* lock(): the first compare-exchange; Ok returns the guard, Err(val) enters
\* the loop with c = val.
LockFrom(t, place) ==
    /\ pc[t] = place
    /\ todo[t] > 0
    /\ todo' = [todo EXCEPT ![t] = @ - 1]
    /\ LET r == LockFastCas(word) IN
        /\ word' = r.word
        /\ IF r.ok
           THEN /\ pc' = [pc EXCEPT ![t] = "held"]
                /\ guards' = [guards EXCEPT ![t] = @ + 1]
                /\ c' = c
                /\ op' = [op EXCEPT ![t] = "none"]
           ELSE /\ pc' = [pc EXCEPT ![t] = "loop"]
                /\ guards' = guards
                /\ c' = [c EXCEPT ![t] = r.v]
                /\ op' = [op EXCEPT ![t] = "lock"]
    /\ UNCHANGED <<chanVars, slow, val, tmp, tryHeld, written, waitCalls, wakeCalls>>

\* lock() called by a thread that holds no guard.
Lock(t) == LockFrom(t, "idle")

\* lock() called again by the thread that already holds the guard.
Relock(t) == guards[t] > 0 /\ LockFrom(t, "held")

\* ------------------------------------------------------ lock(), contended
MarkContendedCas_add(w) == [ok |-> TRUE, v |-> w, word |-> fetch_add(w, 1)]

\* self.lock.compare_exchange(LOCKED, CONTESTED, Acquire, Acquire)
MarkContendedCas(w) == compare_exchange(w, LOCKED, CONTESTED)

\* (c == 2) || (compare_exchange(LOCKED, CONTESTED) == Err(2)); the
\* compare-exchange is evaluated only when c != 2.
LockLoop(t) ==
    /\ pc[t] = "loop"
    /\ IF c[t] = 2
       THEN /\ pc' = [pc EXCEPT ![t] = "wait"]
            /\ word' = word
       ELSE LET r == MarkContendedCas(word) IN
            /\ word' = r.word
            /\ pc' = [pc EXCEPT ![t] =
                        IF ~r.ok /\ r.v = 2 THEN "wait" ELSE "retry"]
    /\ UNCHANGED <<chanVars, op, slow, val, c, tmp, guards, todo, tryHeld, written,
                   waitCalls, wakeCalls>>

\* futex(FUTEX_WAIT, val): the kernel blocks the caller only if the word still
\* holds `val`; otherwise the call returns immediately.
FutexWaitBlocks(w, expected) == w = expected

WaitExpected_locked == LOCKED

\* the value lock() passes to futex_wait: CONTESTED
WaitExpected == CONTESTED

\* F::futex_wait(&self.lock, CONTESTED, None)
FutexWait(t) ==
    /\ pc[t] = "wait"
    /\ waitCalls' = CountCall(waitCalls)
    /\ pc' = [pc EXCEPT ![t] =
                IF FutexWaitBlocks(word, WaitExpected) THEN "blocked" ELSE "retry"]
    /\ UNCHANGED <<chanVars, op, slow, word, val, c, tmp, guards, todo, tryHeld, written,
                   wakeCalls>>

\* A blocked futex_wait may return without any wake (signal, spurious wakeup).
SpuriousWakeup(t) ==
    /\ pc[t] = "blocked"
    /\ pc' = [pc EXCEPT ![t] = "retry"]
    /\ UNCHANGED <<chanVars, op, slow, word, val, c, tmp, guards, todo, tryHeld, written,
                   waitCalls, wakeCalls>>

LockSlowCas_locked(w) == compare_exchange(w, LOCKED, CONTESTED)

LockSlowCas_toLocked(w) == compare_exchange(w, UNLOCKED, LOCKED)

\* self.lock.compare_exchange(UNLOCKED, CONTESTED, Acquire, Acquire)
LockSlowCas(w) == compare_exchange(w, UNLOCKED, CONTESTED)

\* c = match compare_exchange(UNLOCKED, CONTESTED) { Ok => break guard, Err(val) => val }
LockRetry(t) ==
    /\ pc[t] = "retry"
    /\ LET r == LockSlowCas(word) IN
        /\ word' = r.word
        /\ IF r.ok
           THEN /\ pc' = [pc EXCEPT ![t] = "held"]
                /\ guards' = [guards EXCEPT ![t] = @ + 1]
                /\ c' = [c EXCEPT ![t] = 0]
                /\ op' = [op EXCEPT ![t] = "none"]
                /\ slow' = [slow EXCEPT ![t] = TRUE]
           ELSE /\ pc' = [pc EXCEPT ![t] = "loop"]
                /\ guards' = guards
                /\ c' = [c EXCEPT ![t] = r.v]
                /\ UNCHANGED <<op, slow>>
    /\ UNCHANGED <<chanVars, val, tmp, todo, tryHeld, written, waitCalls, wakeCalls>>

\* ---------------------------------------------------------------- try_lock()
TryLockCas_locked(w, spurious) == compare_exchange_weak(w, LOCKED, LOCKED, spurious)

TryLockCas_swap(w, spurious) ==
    [ok |-> w = UNLOCKED /\ ~spurious, v |-> w, word |-> LOCKED]

\* self.lock.compare_exchange_weak(UNLOCKED, LOCKED, Acquire, Acquire)
TryLockCas(w, spurious) == compare_exchange_weak(w, UNLOCKED, LOCKED, spurious)

TryLockOnErr_spin == "loop"

\* Err(_) => Err(TryLockError::WouldBlock): the call returns to its caller.
TryLockOnErr == "try_err"

\* try_lock(): one weak compare-exchange; Ok => guard, Err(_) => WouldBlock.
TryLock(t) ==
    /\ pc[t] = "idle"
    /\ todo[t] > 0
    /\ todo' = [todo EXCEPT ![t] = @ - 1]
    /\ tryHeld' = [tryHeld EXCEPT ![t] = GuardsAlive > 0]
    /\ \E spurious \in BOOLEAN :
        LET r == TryLockCas(word, spurious) IN
        /\ word' = r.word
        /\ IF r.ok
           THEN /\ pc' = [pc EXCEPT ![t] = "held"]
                /\ guards' = [guards EXCEPT ![t] = @ + 1]
                /\ op' = [op EXCEPT ![t] = "none"]
           ELSE /\ pc' = [pc EXCEPT ![t] = TryLockOnErr]
                /\ guards' = guards
                /\ op' = [op EXCEPT ![t] = "try_lock"]
    /\ UNCHANGED <<chanVars, slow, val, c, tmp, written, waitCalls, wakeCalls>>

\* The caller looks at the Err(WouldBlock) and carries on
\* (tests::try_lock_would_block).
WouldBlock(t) ==
    /\ pc[t] = "try_err"
    /\ pc' = [pc EXCEPT ![t] = "idle"]
    /\ tryHeld' = [tryHeld EXCEPT ![t] = FALSE]
    /\ op' = [op EXCEPT ![t] = "none"]
    /\ UNCHANGED <<chanVars, slow, word, val, c, tmp, guards, todo, written, waitCalls, wakeCalls>>

\* ------------------------------------------------------ access through guard
\* Deref for the guard: `*lock` read by the holder.
Deref(t) ==
    /\ pc[t] = "held"
    /\ guards[t] > 0
    /\ tmp' = [tmp EXCEPT ![t] = val]
    /\ pc' = [pc EXCEPT ![t] = "read"]
    /\ UNCHANGED <<chanVars, op, slow, word, val, c, guards, todo, tryHeld, written,
                   waitCalls, wakeCalls>>

\* DerefMut for the guard: the holder stores v into the payload.
DerefMut(t, v) ==
    /\ guards[t] > 0
    /\ val' = v
    /\ written' = v
    /\ pc' = [pc EXCEPT ![t] = "written"]
    /\ UNCHANGED <<chanVars, op, slow, word, c, tmp, guards, todo, tryHeld, waitCalls,
                   wakeCalls>>

\* `*lock = 42`: a store of any value, whether or not the holder read before.
Store(t) ==
    /\ pc[t] \in {"held", "read"}
    /\ \E v \in PayloadValues : DerefMut(t, v)

\* `*lock = *lock + 1`: the store of the value read plus one.
Increment(t) ==
    /\ pc[t] = "read"
    /\ DerefMut(t, tmp[t] + 1)

\* ----------------------------------------------------- guard drop / unlock
DropMustWake_inverted(prev) == prev = LOCKED

DropMustWake_always(prev) == TRUE

\* if self.lock.fetch_sub(1, Release) != 1 { store; wake }
DropMustWake(prev) == prev # LOCKED

\* Drop for FuterGuardInternal, first step: the fetch_sub and its test.  The
\* guard stops being alive here.
DropFrom(t, places) ==
    /\ pc[t] \in places
    /\ guards[t] > 0
    /\ guards' = [guards EXCEPT ![t] = @ - 1]
    /\ word' = fetch_sub(word, 1)
    /\ pc' = [pc EXCEPT ![t] = IF DropMustWake(word) THEN "drop_store" ELSE "idle"]
    /\ tmp' = [tmp EXCEPT ![t] = NoValue]
    /\ tryHeld' = [tryHeld EXCEPT ![t] = FALSE]
    /\ op' = [op EXCEPT ![t] = IF DropMustWake(word) THEN "drop" ELSE "none"]
    /\ slow' = [slow EXCEPT ![t] = FALSE]
    /\ UNCHANGED <<chanVars, val, c, todo, written, waitCalls, wakeCalls>>

\* unlock(guard) / the guard leaving scope, after any use of the guard.
Drop(t) == DropFrom(t, {"held", "read", "written"})

\* self.lock.store(0, Release)
DropStore(t) ==
    /\ pc[t] = "drop_store"
    /\ word' = UNLOCKED
    /\ pc' = [pc EXCEPT ![t] = "drop_wake"]
    /\ UNCHANGED <<chanVars, op, slow, val, c, tmp, guards, todo, tryHeld, written,
                   waitCalls, wakeCalls>>

\* futex(FUTEX_WAKE, n): the kernel wakes at most n of the threads blocked on
\* the word.
FutexWakeSets(n) ==
    {S \in SUBSET Blocked : Cardinality(S) = U32Min(n, Cardinality(Blocked))}

\* F::futex_wake(self.lock, u32::MAX, None)
DropWake(t) ==
    /\ pc[t] = "drop_wake"
    /\ wakeCalls' = CountCall(wakeCalls)
    /\ \E S \in FutexWakeSets(U32_MAX) :
        pc' = [u \in DOMAIN pc |->
                 IF u = t THEN "idle" ELSE IF u \in S THEN "retry" ELSE pc[u]]
    /\ op' = [op EXCEPT ![t] = "none"]
    /\ UNCHANGED <<chanVars, slow, word, val, c, tmp, guards, todo, tryHeld, written,
                   waitCalls>>

\* ------------------------------------------------------------ specifications
ThreadStep(t) ==
    \/ Lock(t)
    \/ LockLoop(t)
    \/ FutexWait(t)
    \/ LockRetry(t)
    \/ TryLock(t)
    \/ WouldBlock(t)
    \/ Deref(t)
    \/ Store(t)
    \/ Drop(t)
    \/ DropStore(t)
    \/ DropWake(t)

Next == \E t \in Threads : ThreadStep(t) \/ SpuriousWakeup(t)

Spec == Init /\ [][Next]_vars

\* tests::basic_sync_test: every thread only runs
\* lock(); *lock = *lock + 1; unlock(lock), Iters times.
DropWritten(t) == DropFrom(t, {"written"})

SumStep(t) ==
    \/ Lock(t)
    \/ LockLoop(t)
    \/ FutexWait(t)
    \/ LockRetry(t)
    \/ Deref(t)
    \/ Increment(t)
    \/ DropWritten(t)
    \/ DropStore(t)
    \/ DropWake(t)

NextSum == \E t \in Threads : SumStep(t) \/ SpuriousWakeup(t)

SpecSum == Init /\ [][NextSum]_vars

\* tests::futer_unlock_api: threads that only run lock(); unlock(lock) pairs.
DropHeld(t) == DropFrom(t, {"held"})

PairStep(t) ==
    \/ Lock(t)
    \/ LockLoop(t)
    \/ FutexWait(t)
    \/ LockRetry(t)
    \/ DropHeld(t)
    \/ DropStore(t)
    \/ DropWake(t)

NextPairs == \E t \in Threads : PairStep(t) \/ SpuriousWakeup(t)

\* The pairs under fair scheduling: a thread that can take a step of its own
\* eventually takes one (OS threads run).  A spurious wakeup is never owed to
\* anyone.
FairSpec == Init /\ [][NextPairs]_vars /\ \A t \in Threads : WF_vars(PairStep(t))

\* ---------------------------------------------------------------- predicates
AllFinished == \A t \in Threads : pc[t] = "idle" /\ todo[t] = 0
Releasing == {t \in Threads : pc[t] \in {"drop_store", "drop_wake"}}
Touched == {t \in Threads : todo[t] < Iters}
NoStuckWaiter == Blocked # {} => (GuardsAlive > 0 \/ Releasing # {})

\* -------------------------------------------------------------------- claims
\* C1: mutual exclusion - at most one guard is alive in every reachable state,
\* whatever the interleaving of lock(), try_lock() and drops, and with waits
\* that return spuriously or because the value did not match.
C1_MutualExclusion == GuardsAlive <= 1

\* a guard is alive while another thread has come back from futex_wait
C1_Witness ==
    \E t, u \in Threads :
        t # u /\ guards[t] = 1 /\ pc[u] = "retry" /\ waitCalls > 0

\* C2: no lost updates - when every thread has finished its Iters rounds of
\* lock; read; write read+1; unlock on a payload that started at 0, the payload
\* equals NumThreads * Iters.
C2_NoLostUpdates == AllFinished => val = NumThreads * Iters

\* all threads finished after a run in which the lock was contended
C2_Witness == AllFinished /\ val = NumThreads * Iters /\ wakeCalls > 0

\* C3: release wakes waiters - a thread blocked in futex_wait inside lock()
\* eventually holds the guard, under fair scheduling of the threads.
C3_ReleaseWakesWaiters ==
    \A t \in Threads : (pc[t] = "blocked") ~> (guards[t] > 0)

\* a thread is blocked while the releasing thread is about to issue its wake
C3_Witness ==
    \E t, u \in Threads : t # u /\ pc[t] = "blocked" /\ pc[u] = "drop_wake"

\* C4: the fast path is syscall-free - as long as a single thread has used the
\* lock, futex_wait and futex_wake have never been called, and the word is
\* UNLOCKED whenever that thread is outside its critical section.
C4_FastPathNoSyscall ==
    Cardinality(Touched) <= 1 =>
        /\ waitCalls = 0
        /\ wakeCalls = 0
        /\ (\A t \in Threads : pc[t] = "idle") => word = UNLOCKED

\* one thread made all its calls, wrote through a guard and has unlocked
\* again; no other thread ever touched the lock
C4_Witness ==
    /\ \E t \in Threads : Touched = {t} /\ todo[t] = 0
    /\ \A t \in Threads : pc[t] = "idle"
    /\ val # InitVal

\* C5: while a guard is alive try_lock() returns WouldBlock and creates no
\* second guard.
C5_TryLockWhileHeld ==
    \A t \in Threads :
        tryHeld[t] => (pc[t] = "try_err" /\ guards[t] = 0 /\ GuardsAlive <= 1)

\* a try_lock() ran while another thread's guard was alive, which it still is
C5_Witness ==
    \E t \in Threads : tryHeld[t] /\ pc[t] = "try_err" /\ GuardsAlive = 1

\* C6: try_lock() returns WouldBlock only if some guard was alive at the moment
\* of its compare-exchange.
C6_WouldBlockOnlyWhenHeld ==
    \A t \in Threads : pc[t] = "try_err" => tryHeld[t]

\* C7: the lock word is UNLOCKED, LOCKED or CONTESTED in every reachable state:
\* it never exceeds 2 and the drop's fetch_sub never wraps below 0.
C7_WordInRange == word \in {UNLOCKED, LOCKED, CONTESTED}

\* a waiter marked the word CONTESTED again while a drop is between its
\* fetch_sub and its store
C7_Witness == word = CONTESTED /\ \E t \in Threads : pc[t] = "drop_store"

\* C8: eventual progress - under fair scheduling every thread completes all
\* its lock(); unlock() pairs, and no thread is ever blocked in futex_wait
\* while no guard is alive and no release is under way.
C8_EventualProgress == <>[]AllFinished /\ []NoStuckWaiter

\* every thread has finished although futex_wait was called on the way
C8_Witness == AllFinished /\ waitCalls > 0 /\ word = UNLOCKED

\* C9: value round-trip - the value a holder has read through its guard is the
\* value most recently written through a guard, or the constructor's value if
\* nothing was written.
C9_ValueRoundTrip == \A t \in Threads : pc[t] = "read" => tmp[t] = written

\* a holder reads, on its last call, a value that an earlier guard wrote
C9_Witness ==
    \E t \in Threads :
        /\ pc[t] = "read"
        /\ tmp[t] # InitVal
        /\ todo[t] = 0

\* C10 as stated: whenever the word is LOCKED exactly one guard is alive and no
\* thread is blocked in futex_wait.
C10_LockedMeansOneOwnerNoWaiter ==
    word = LOCKED => (GuardsAlive = 1 /\ Blocked = {})

\* C10 as amended: whenever the word is LOCKED, exactly one guard is alive
\* unless a drop is between its fetch_sub and its store of UNLOCKED, and no
\* thread is blocked in futex_wait unless a drop is between its fetch_sub and
\* its futex_wake.
C10_LockedOutsideRelease ==
    word = LOCKED =>
        /\ GuardsAlive = 1 \/ \E t \in Threads : pc[t] = "drop_store"
        /\ Blocked = {} \/ Releasing # {}

\* the word is LOCKED under a single guard, after earlier contention, with no
\* release under way and nobody blocked
C10_Witness ==
    /\ word = LOCKED
    /\ GuardsAlive = 1
    /\ Releasing = {}
    /\ Blocked = {}
    /\ wakeCalls > 0

\* C11: whenever the word is UNLOCKED no guard is alive; equivalently, while a
\* guard is alive (from its acquisition until its drop begins) the word is
\* LOCKED or CONTESTED, whatever the other threads do.
C11_UnlockedMeansNoOwner ==
    /\ word = UNLOCKED => GuardsAlive = 0
    /\ GuardsAlive > 0 => word \in {LOCKED, CONTESTED}

\* a guard is alive while an earlier owner has stored UNLOCKED and still owes
\* its futex_wake
C11_Witness ==
    \E t, u \in Threads : t # u /\ guards[t] = 1 /\ pc[u] = "drop_wake"

\* Positions inside lock()'s contended path.
InLockLoop(t) == pc[t] \in {"loop", "wait", "blocked", "retry"}

\* C12: only lock() can suspend a thread, and only at its futex_wait: a thread
\* that is at or behind a futex_wait call is inside lock(); a try_lock() has
\* returned after its single step; a guard's drop is at its store or its wake,
\* which it can always take whatever the other threads do, and every step of
\* the drop moves it forward (fetch_sub, store, wake, done).
C12_OnlyLockSuspends ==
    /\ [](\A t \in Threads :
            /\ InLockLoop(t) => op[t] = "lock"
            /\ op[t] = "try_lock" => pc[t] = "try_err"
            /\ op[t] = "drop" =>
                 /\ pc[t] \in {"drop_store", "drop_wake"}
                 /\ ENABLED (DropStore(t) \/ DropWake(t)))
    /\ [][\A t \in Threads :
            (op[t] = "drop" /\ pc'[t] # pc[t]) =>
                \/ pc[t] = "drop_store" /\ pc'[t] = "drop_wake"
                \/ pc[t] = "drop_wake" /\ op'[t] = "none"]_vars

\* a drop is at its futex_wake while the other thread is suspended in lock()
C12_Witness ==
    \E t, u \in Threads :
        /\ op[t] = "drop" /\ pc[t] = "drop_wake"
        /\ pc[u] = "blocked" /\ op[u] = "lock"

\* Clients that may also call lock() while they already hold the guard.
NextRelock == \E t \in Threads : ThreadStep(t) \/ SpuriousWakeup(t) \/ Relock(t)

SpecRelock == Init /\ [][NextRelock]_vars

\* thread t holds the guard and is inside a second lock() on the same lock
Relocking(t) == guards[t] > 0 /\ InLockLoop(t)

\* C13: a thread that holds the guard and calls lock() again never returns from
\* that call and never gets a second guard: it stays inside lock()'s loop
\* across every step (spurious wakeups and wakes included), and once it has
\* reached futex_wait the word is CONTESTED, so the wait blocks.
C13_SelfRelockNeverReturns ==
    /\ [](\A t \in Threads :
            /\ guards[t] <= 1
            /\ (Relocking(t) /\ pc[t] \in {"wait", "blocked"}) => word = CONTESTED)
    /\ [][\A t \in Threads :
            Relocking(t) => (guards'[t] = guards[t] /\ pc'[t] # "held"
                             /\ Relocking(t)')]_vars

\* the holder is blocked in its second lock() again after a wakeup sent it
\* through a failed compare-exchange (c = CONTESTED)
C13_Witness ==
    \E t \in Threads :
        Relocking(t) /\ pc[t] = "blocked" /\ c[t] = CONTESTED

\* ------------------------------------------------- the channel (src/lib.rs)
\* The thread that owns the Receiver holds the mutex of Inner.shared from its
\* lock() in recv until it pops, returns the error or enters Condvar::wait.
SharedLocked == rpc \in {"check", "count", "prewait"}

\* Sender handles that exist: created and not yet released their Arc.
LiveSenders == {s \in Senders : spc[s] \notin {"none", "gone"}}

NotifyOne_lost(r) == r

\* Condvar::notify_one: wakes the thread blocked in Condvar::wait, if there is
\* one; otherwise the notification has no effect.
NotifyOne(r) == IF r = "waiting" THEN "woken" ELSE r

\* VecDeque::push_back
PushBack(q, x) == Append(q, x)

PopFront_back(q) == [elem |-> q[Len(q)], rest |-> SubSeq(q, 1, Len(q) - 1)]

\* VecDeque::pop_front on a non-empty queue
PopFront(q) == [elem |-> Head(q), rest |-> Tail(q)]

\* Sender::send, first statement: lock the mutex, push_back, release the
\* mutex (the temporary guard dies at the end of the statement).
SendPush(s) ==
    /\ spc[s] = "live"
    /\ nextVal <= MaxSends
    /\ ~SharedLocked
    /\ que' = PushBack(que, nextVal)
    /\ sent' = Append(sent, nextVal)
    /\ nextVal' = nextVal + 1
    /\ spc' = [spc EXCEPT ![s] = "send_notify"]
    /\ UNCHANGED <<futerVars, strong, rpc, received, lastRes>>

\* Sender::send, second statement: self.inner.cvar.notify_one(); Ok(())
SendNotify(s) ==
    /\ spc[s] = "send_notify"
    /\ rpc' = NotifyOne(rpc)
    /\ spc' = [spc EXCEPT ![s] = "live"]
    /\ UNCHANGED <<futerVars, que, strong, nextVal, sent, received, lastRes>>

\* Clone for Sender: Arc::clone increments the strong count.
SenderClone(s, n) ==
    /\ spc[s] = "live"
    /\ spc[n] = "none"
    /\ strong' = strong + 1
    /\ spc' = [spc EXCEPT ![n] = "live"]
    /\ UNCHANGED <<futerVars, que, rpc, nextVal, sent, received, lastRes>>

\* if Arc::strong_count(&self.inner) == 2
DropNotifies(n) == n = 2

\* Drop for Sender: the test of the strong count, made without the mutex while
\* the handle's own Arc is still counted.
SenderDropCheck(s) ==
    /\ spc[s] = "live"
    /\ spc' = [spc EXCEPT ![s] =
                 IF DropNotifies(strong) THEN "drop_notify" ELSE "drop_arc"]
    /\ UNCHANGED <<futerVars, que, strong, rpc, nextVal, sent, received, lastRes>>

\* Drop for Sender: self.inner.cvar.notify_one()
SenderDropNotify(s) ==
    /\ spc[s] = "drop_notify"
    /\ rpc' = NotifyOne(rpc)
    /\ spc' = [spc EXCEPT ![s] = "drop_arc"]
    /\ UNCHANGED <<futerVars, que, strong, nextVal, sent, received, lastRes>>

\* After Drop::drop has returned the field `inner` is dropped: the Arc's
\* strong count is decremented.
SenderDropArc(s) ==
    /\ spc[s] = "drop_arc"
    /\ strong' = strong - 1
    /\ spc' = [spc EXCEPT ![s] = "gone"]
    /\ UNCHANGED <<futerVars, que, rpc, nextVal, sent, received, lastRes>>

\* Receiver::recv: self.inner.shared.lock()
RecvLock ==
    /\ rpc = "idle"
    /\ rpc' = "check"
    /\ UNCHANGED <<futerVars, que, strong, spc, nextVal, sent, received, lastRes>>

\* while que.is_empty() { ... }  let elem = que.pop_front().unwrap(); Ok(elem)
RecvCheck ==
    /\ rpc = "check"
    /\ IF que = <<>>
       THEN /\ rpc' = "count"
            /\ UNCHANGED <<que, received, lastRes>>
       ELSE /\ que' = PopFront(que).rest
            /\ received' = Append(received, PopFront(que).elem)
            /\ lastRes' = "ok"
            /\ rpc' = "idle"
    /\ UNCHANGED <<futerVars, strong, spc, nextVal, sent>>

NoMoreValues_two(n) == n = 2

\* if Arc::strong_count(&self.inner) == 1
NoMoreValues(n) == n = 1

\* the test of the strong count inside the loop; return Err("no more values")
RecvCount ==
    /\ rpc = "count"
    /\ IF NoMoreValues(strong)
       THEN rpc' = "idle" /\ lastRes' = "err"
       ELSE rpc' = "prewait" /\ lastRes' = lastRes
    /\ UNCHANGED <<futerVars, que, strong, spc, nextVal, sent, received>>

\* self.inner.cvar.wait(que): releases the mutex and blocks, atomically
RecvWait ==
    /\ rpc = "prewait"
    /\ rpc' = "waiting"
    /\ UNCHANGED <<futerVars, que, strong, spc, nextVal, sent, received, lastRes>>

\* Condvar::wait may return without a notification.
RecvSpurious ==
    /\ rpc = "waiting"
    /\ rpc' = "woken"
    /\ UNCHANGED <<futerVars, que, strong, spc, nextVal, sent, received, lastRes>>

\* Condvar::wait returning: the mutex is taken again and the loop re-tests.
RecvRelock ==
    /\ rpc = "woken"
    /\ rpc' = "check"
    /\ UNCHANGED <<futerVars, que, strong, spc, nextVal, sent, received, lastRes>>

SenderStep(s) ==
    \/ SendPush(s)
    \/ SendNotify(s)
    \/ \E n \in Senders : SenderClone(s, n)
    \/ SenderDropCheck(s)
    \/ SenderDropNotify(s)
    \/ SenderDropArc(s)

\* the steps of a call in progress (recv once entered)
RecvProgress == RecvCheck \/ RecvCount \/ RecvWait \/ RecvRelock

\* the steps that finish a send or a drop once it has begun
SenderProgress(s) == SendNotify(s) \/ SenderDropNotify(s) \/ SenderDropArc(s)

ChanNext ==
    \/ \E s \in Senders : SenderStep(s)
    \/ RecvLock
    \/ RecvProgress
    \/ RecvSpurious

ChanSpec == Init /\ [][ChanNext]_vars

\* Every thread that can take a step of the call it is in eventually takes it;
\* nothing forces a call to begin or a wait to return spuriously.
ChanFairSpec ==
    /\ ChanSpec
    /\ WF_vars(RecvProgress)
    /\ \A s \in Senders : WF_vars(SenderProgress(s))

\* no Sender exists any more
NoSender == LiveSenders = {}

\* C14: when every Sender has been dropped while the receiver is inside recv()
\* on an empty queue, recv() eventually returns Err("no more values").
C14_DroppedSendersWakeReceiver ==
    (NoSender /\ que = <<>> /\ rpc # "idle") ~> (rpc = "idle" /\ lastRes = "err")

\* recv() is inside its call and the n-th payload, the next it has to return,
\* has been pushed
Undelivered(n) == rpc # "idle" /\ Len(sent) >= n /\ Len(received) = n - 1

\* C15: recv() returns only with a payload that a send() pushed, or with the
\* error when no Sender exists; and a recv() in progress eventually returns
\* Ok once a payload has been pushed for it (the notification is not lost).
C15_RecvWaitsForSend ==
    /\ [][(rpc # "idle" /\ rpc' = "idle") =>
            \/ /\ lastRes' = "ok"
               /\ Len(received') = Len(received) + 1
               /\ Len(received') <= Len(sent)
            \/ lastRes' = "err" /\ NoSender]_vars
    /\ \A n \in 1..MaxSends : Undelivered(n) ~> (Len(received) >= n)

\* the receiver is blocked in Condvar::wait, a payload is already in the queue
\* and the sender has not notified yet
C15_Witness ==
    /\ rpc = "waiting"
    /\ que # <<>>
    /\ \E s \in Senders : spc[s] = "send_notify"

\* C16: recv() has returned Err("no more values") only if the queue is empty
\* and no Sender exists, and every payload pushed before was returned in Ok
\* before the error.
C16_ErrOnlyWhenNoSender ==
    lastRes = "err" => (que = <<>> /\ NoSender /\ received = sent)

\* the error was returned after both handles were dropped and a payload was
\* delivered
C16_Witness ==
    /\ lastRes = "err"
    /\ Len(received) >= 1
    /\ \A s \in Senders : spc[s] = "gone"

IsPrefix(a, b) == Len(a) <= Len(b) /\ a = SubSeq(b, 1, Len(a))

\* C17: the payloads recv() returned are a prefix of the payloads in the order
\* the send() calls appended them, none returned twice, none lost: what was
\* sent is what was received followed by what is still queued.
C17_Fifo ==
    /\ IsPrefix(received, sent)
    /\ \A i, j \in 1..Len(received) : received[i] = received[j] => i = j
    /\ sent = received \o que

\* a payload was received while a later one is still queued
C17_Witness ==
    Len(received) >= 1 /\ Len(que) >= 1

\* C18: a guard's destruction issues a wake exactly when the value its
\* fetch_sub returned was not LOCKED.  The step that ends the guard either
\* finds LOCKED, leaves the word UNLOCKED and finishes the drop without any
\* futex_wake, or finds CONTESTED and goes on to the store; the store leaves
\* the word UNLOCKED; the single futex_wake(word, u32::MAX) that follows
\* wakes every blocked thread and finishes the drop.
C18_WakeIffContended ==
    [][\A t \in Threads :
        /\ guards'[t] < guards[t] =>
             IF word = LOCKED
             THEN /\ word' = UNLOCKED
                  /\ pc'[t] = "idle" /\ op'[t] = "none"
                  /\ wakeCalls' = wakeCalls
                  /\ Blocked' = Blocked
             ELSE /\ word = CONTESTED
                  /\ pc'[t] = "drop_store" /\ op'[t] = "drop"
                  /\ wakeCalls' = wakeCalls
        /\ (pc[t] = "drop_store" /\ pc'[t] # "drop_store") =>
             /\ word' = UNLOCKED
             /\ pc'[t] = "drop_wake"
             /\ wakeCalls' = wakeCalls
        /\ (pc[t] = "drop_wake" /\ pc'[t] # "drop_wake") =>
             /\ pc'[t] = "idle" /\ op'[t] = "none"
             /\ wakeCalls' = CountCall(wakeCalls)
             /\ Blocked' = {}
             /\ word' = word]_vars

\* a contended drop has issued its wake: the waiter it woke is about to retry
\* and the releasing thread is done
C18_Witness ==
    /\ wakeCalls > 0
    /\ word = UNLOCKED
    /\ \E t, u \in Threads :
        /\ pc[t] = "idle" /\ todo[t] < Iters
        /\ pc[u] = "retry" /\ c[u] = LOCKED

\* One thread more than in Spec, each running WideCalls lock(); unlock() pairs:
\* a releasing thread, a waiter and a newcomer can be told apart.
InitWide == FuterInit(WideThreads, WideCalls) /\ ChanInit

NextWide == \E t \in WideThreads : PairStep(t) \/ SpuriousWakeup(t)

SpecWide == InitWide /\ [][NextWide]_vars

\* C19 as stated: whenever a drop's fetch_sub returns exactly LOCKED (the drop
\* that issues no wake), no thread is blocked in futex_wait at that moment.
C19_NoWaiterAtLockedDrop ==
    [][\A t \in WideThreads :
        (guards'[t] < guards[t] /\ word = LOCKED) => Blocked = {}]_vars

\* threads whose drop has stored UNLOCKED and still owes its futex_wake
OwingWake == {u \in DOMAIN pc : pc[u] = "drop_wake"}

\* C19, amended: whenever a drop's fetch_sub returns exactly LOCKED, no thread
\* is blocked in futex_wait unless an earlier guard's drop has stored UNLOCKED
\* and still owes its futex_wake (which will wake every blocked thread).
C19_NoUnservedWaiterAtLockedDrop ==
    [][\A t \in WideThreads :
        (guards'[t] < guards[t] /\ word = LOCKED) =>
            (Blocked = {} \/ OwingWake # {})]_vars

\* a fast-path owner is about to drop with the word LOCKED while a waiter from
\* the previous ownership is still blocked and the previous owner's wake is due
C19_Witness ==
    \E t, u, v \in WideThreads :
        /\ guards[t] = 1 /\ word = LOCKED /\ pc[t] = "held"
        /\ pc[u] = "blocked"
        /\ pc[v] = "drop_wake"

\* C20: a guard that lock() returned through its contended path keeps the
\* word at CONTESTED from its acquisition until its release, so the release
\* finds CONTESTED and goes on to the store and the futex_wake, whether or not
\* any thread is waiting.
C20_SlowGuardKeepsContested ==
    /\ [](\A t \in Threads : (guards[t] > 0 /\ slow[t]) => word = CONTESTED)
    /\ [][\A t \in Threads :
            (guards'[t] < guards[t] /\ slow[t]) =>
                (word = CONTESTED /\ pc'[t] = "drop_store" /\ op'[t] = "drop")]_vars

\* a guard returned by the contended path is alive with the word CONTESTED
\* while no thread is blocked and every other thread is outside the lock
C20_Witness ==
    \E t \in Threads :
        /\ slow[t] /\ guards[t] = 1 /\ word = CONTESTED
        /\ Blocked = {}
        /\ \A u \in Threads \ {t} : pc[u] = "idle" /\ guards[u] = 0

\* C21: a failing try_lock() has no effect.  The step in which a try_lock()
\* fails is the whole call: it starts at the caller, ends with the
\* Err(WouldBlock) returned, uses up one call, and leaves the word, the
\* payload, the guards, the set of blocked threads and both futex call
\* counters as they were.
C21_FailedTryLockNoEffect ==
    [][\A t \in Threads :
        (op'[t] = "try_lock" /\ op[t] # "try_lock") =>
            /\ pc[t] = "idle" /\ pc'[t] = "try_err"
            /\ todo'[t] = todo[t] - 1
            /\ word' = word
            /\ val' = val
            /\ guards' = guards
            /\ Blocked' = Blocked
            /\ waitCalls' = waitCalls
            /\ wakeCalls' = wakeCalls]_vars

\* a try_lock() has failed against a guard that holds the word at CONTESTED
C21_Witness ==
    \E t, u \in Threads :
        /\ pc[t] = "try_err" /\ op[t] = "try_lock"
        /\ guards[u] = 1 /\ word = CONTESTED

\* C22: no missed wakeup - in every reachable state in which some thread is
\* blocked in futex_wait on the word, either a guard is alive and the word is
\* CONTESTED (so the guard's drop will wake), or a releasing thread is between
\* its fetch_sub and its futex_wake call (a wake is still pending).
C22_NoMissedWakeup ==
    Blocked # {} =>
        \/ GuardsAlive > 0 /\ word = CONTESTED
        \/ Releasing # {}

\* a thread is blocked while the only guard has just ended: the releasing
\* thread has done its fetch_sub (word LOCKED) and not yet its store
C22_Witness ==
    \E t, u \in Threads :
        /\ pc[t] = "blocked"
        /\ pc[u] = "drop_store" /\ word = LOCKED
        /\ GuardsAlive = 0

====
